---- MODULE Spec2Model ----
(***************************************************************************)
(* Model of src/src/main.c: bit-banged binary-code-modulation refresh of a *)
(* 32x32 RGB matrix panel on an STM32F401.                                 *)
(*                                                                         *)
(* The main thread is modelled statement by statement (variable pc); the   *)
(* two UART completion interrupts are separate actions that may fire       *)
(* between any two statements of the main thread.                          *)
(*                                                                         *)
(* Two specifications share the actions of displayBuffer:                  *)
(*   ScanSpec  one call of displayBuffer on the panel of the source        *)
(*             (MATRIX_WIDTH = MATRIX_HEIGHT = 32), for a set of frames;   *)
(*   Spec      the whole program from the entry of main, on a panel of     *)
(*             SmallWidth x 2*SmallScan pixels so that the 500 test passes *)
(*             and MaxFrame frames of the endless loop can be explored.    *)
(* The geometry is therefore held in the variable geom, fixed by the       *)
(* initial predicate and never changed.                                    *)
(***************************************************************************)
EXTENDS Integers, Sequences, FiniteSets, TLC

(***************************************************************************)
(* Program constants                                                       *)
(***************************************************************************)
PanelWidth == 32
PanelHeight == 32
NumPlanes == 8
TestPasses == 500
RandomizeEvery == 5
AliveEvery == 200
GammaSize == 256
INT_MAX == 2147483647
GammaScale == 255
GammaDivisor == 256

(***************************************************************************)
(* Bounds of the model                                                     *)
(***************************************************************************)
SmallWidth == 2
SmallScan == 1
MaxFrame == 400
LongMaxFrame == 1000
NumRandStreams == 2
CounterMaxFrame == 1300
WrapFrames == 60

\* a hold table that grows by a constant step instead of doubling
waits_Linear == <<10, 20, 30, 40, 50, 60, 70, 80>>

\* line 74
waits == <<10, 20, 40, 80, 160, 320, 640, 1280>>

(***************************************************************************)
(* Bit arithmetic on C unsigned values                                     *)
(***************************************************************************)
\* 1 << k for k in 0..30
Pow2(k) ==
  <<1, 2, 4, 8, 16, 32, 64, 128, 256, 512, 1024, 2048, 4096, 8192, 16384, 32768,
    65536, 131072, 262144, 524288, 1048576, 2097152, 4194304, 8388608, 16777216,
    33554432, 67108864, 134217728, 268435456, 536870912, 1073741824>>[k + 1]

\* (v & (1 << k)) != 0, as 1 or 0
TestBit(v, k) == (v \div Pow2(k)) % 2

\* one 8-bit channel of a packed pixel: (v >> shift) & 0xFF
Channel(v, shift) == (v \div Pow2(shift)) % 256

(***************************************************************************)
(* gammaTable[i] = 255*pow((i/256.0),1.6), converted to uint8_t (line 98). *)
(* The conversion truncates, so the entry is the largest integer g with    *)
(* g <= 255*(i/256)^(8/5), that is g^5 * 256^8 <= 255^5 * i^8.  The two    *)
(* products exceed 32-bit integers, so they are                            *)
(* computed on little-endian sequences of base-1000 limbs.                 *)
(***************************************************************************)
GammaExpNum == 8
GammaExpDen == 5

\* <<n, k, c>> |-> n * k + c
MulCarry[a \in Seq(Nat) \X Nat \X Nat] ==
  LET n == a[1]
      k == a[2]
      c == a[3]
      t == Head(n) * k + c
  IN  IF n = <<>>
        THEN IF c = 0 THEN <<>> ELSE <<c % 1000>> \o MulCarry[<<n, k, c \div 1000>>]
        ELSE <<t % 1000>> \o MulCarry[<<Tail(n), k, t \div 1000>>]

\* <<n, k, t>> |-> n * k^t
MulTimes[a \in Seq(Nat) \X Nat \X Nat] ==
  IF a[3] = 0 THEN a[1] ELSE MulTimes[<<MulCarry[<<a[1], a[2], 0>>], a[2], a[3] - 1>>]

Limb(n, j) == IF j <= Len(n) THEN n[j] ELSE 0

\* <<m, n, j>> |-> m <= n, comparing the limbs j, j-1, ..., 1
LeqFrom[a \in Seq(Nat) \X Seq(Nat) \X Nat] ==
  LET j == a[3]
  IN  IF j = 0 THEN TRUE
      ELSE IF Limb(a[1], j) < Limb(a[2], j) THEN TRUE
      ELSE IF Limb(a[1], j) > Limb(a[2], j) THEN FALSE
      ELSE LeqFrom[<<a[1], a[2], j - 1>>]

\* <<m, n>> |-> m <= n
Leq[a \in Seq(Nat) \X Seq(Nat)] ==
  LeqFrom[<<a[1], a[2], IF Len(a[1]) > Len(a[2]) THEN Len(a[1]) ELSE Len(a[2])>>]

\* <<g, i, scale, divisor>> |-> g <= scale * (i/divisor)^(8/5)
GammaFits[a \in Nat \X Nat \X Nat \X Nat] ==
  Leq[<<MulTimes[<<MulTimes[<<<<1>>, a[1], GammaExpDen>>], a[4], GammaExpNum>>],
        MulTimes[<<MulTimes[<<<<1>>, a[2], GammaExpNum>>], a[3], GammaExpDen>>]>>]

\* <<lo, hi, i, scale, divisor>> |-> the largest g in lo..hi that fits
FloorSearch[a \in Nat \X Nat \X Nat \X Nat \X Nat] ==
  LET lo  == a[1]
      hi  == a[2]
      mid == (lo + hi + 1) \div 2
  IN  IF lo = hi THEN lo
      ELSE IF GammaFits[<<mid, a[3], a[4], a[5]>>]
             THEN FloorSearch[<<mid, hi, a[3], a[4], a[5]>>]
             ELSE FloorSearch[<<lo, mid - 1, a[3], a[4], a[5]>>]

\* the value the loop of line 98 stores at index i
GammaEntry(i) == FloorSearch[<<0, GammaScale, i, GammaScale, GammaDivisor>>]

GammaBuilt == [i \in 0..(GammaSize - 1) |-> GammaEntry(i)]

(***************************************************************************)
(* State                                                                   *)
(***************************************************************************)
VARIABLES
  pc,           \* the statement of the main thread that runs next
  caller,       \* which call of displayBuffer is running: "test" (line 111) or "loop" (line 116)
  geom,         \* [width, height] of the panel: MATRIX_WIDTH, MATRIX_HEIGHT
  framebuffer,  \* uint32_t framebuffer[MATRIX_SIZE], held as MATRIX_HEIGHT rows of
                \* MATRIX_WIDTH words; At and Store address it by the index of the source
  gammaTable,   \* uint8_t gammaTable[256]
  counter,      \* uint8_t counter of randomizeFramebuffer
  i,            \* the loop counter of line 110
  frame,        \* int frame
  lastFrame,    \* the number of frames of the endless loop the model follows
  s, plane, x,  \* the loop counters of displayBuffer
  ri, max, stream, draws,  \* randomizeFramebuffer: pixel index, ceiling, rand() stream and draws made
  rgbPins,      \* GPIOA pins 5..10: <<r1, g1, b1, r2, g2, b2>>
  rowPins,      \* GPIOB pins 5, 6, 8, 9: <<A, B, C, D>>
  dispOn,       \* TRUE while GPIOB pin 10 (output enable, active low) is driven low
  UartReady,    \* the completion flag: TRUE is SET
  txBusy,       \* a transmission started by HAL_UART_Transmit_IT has not completed
  rxBusy,       \* the reception started by HAL_UART_Receive_IT has not completed
  \* observers of the outputs; they never influence the program
  nSetRGB,      \* calls of setRGB in the running pass
  nLatch,       \* STROBE pulses in the running pass
  holds,        \* the amounts of the busy-waits of the running pass made with the
                \* display enabled, in order
  driven,       \* the columns x passed to setRGB since the last STROBE, in order
  clocked,      \* the values of rgbPins at the CLK_TOGGLE pulses since the last STROBE
  latched,      \* the value of clocked at the last STROBE: the row the panel shows
  lit,          \* per pixel (rows as in framebuffer) and channel, the time shown lit in
                \* the running pass
  passBuffer,   \* the framebuffer as it was when the running pass was called
  nRandomize,   \* calls of randomizeFramebuffer
  nAlive,       \* heartbeat transmissions requested at line 121
  nStarted,     \* heartbeat transmissions the UART accepted
  sawReady,     \* the loop of line 119 has read SET since the last request
  cadence       \* passes of the endless loop completed since the last call of
                \* randomizeFramebuffer and since the last heartbeat request, and
                \* the passes there were between the last two of each

progVars == <<pc, caller, geom, lastFrame, framebuffer, gammaTable, counter, i, frame, s, plane, x,
              ri, max, stream, draws>>
pinVars  == <<rgbPins, rowPins, dispOn>>
uartVars == <<UartReady, txBusy, rxBusy>>
obsVars  == <<nSetRGB, nLatch, holds, driven, clocked, latched, lit, passBuffer,
              nRandomize, nAlive, nStarted, sawReady, cadence>>
vars == <<progVars, pinVars, uartVars, obsVars>>

MATRIX_WIDTH  == geom.width
MATRIX_HEIGHT == geom.height
MATRIX_SIZE   == MATRIX_WIDTH * MATRIX_HEIGHT
scan          == MATRIX_HEIGHT \div 2

\* cadence before the first pass of the endless loop
NoCadence == [sinceRandomize |-> 0, sinceAlive |-> 0, gapRandomize |-> 0, gapAlive |-> 0]

\* the indices of an array of g.width * g.height elements
Indices(g) == 0..(g.width * g.height - 1)

\* the array whose element k is flat[k], for k in Indices(g)
Words(g, flat) ==
  [row \in 0..(g.height - 1) |-> [col \in 0..(g.width - 1) |-> flat[row * g.width + col]]]

\* buffer[k]
At(buffer, k) == buffer[k \div MATRIX_WIDTH][k % MATRIX_WIDTH]

\* buffer[k] = v
Store(buffer, k, v) == [buffer EXCEPT ![k \div MATRIX_WIDTH][k % MATRIX_WIDTH] = v]

(***************************************************************************)
(* setRow and setRGB: the levels they leave on the pins                    *)
(***************************************************************************)
\* setRow with the lines C and D (pins 8 and 9) exchanged
setRow_SwappedCD(row) == <<TestBit(row, 0), TestBit(row, 1), TestBit(row, 3), TestBit(row, 2)>>

\* lines 166-181: <<A, B, C, D>> after setRow(row)
setRow(row) == <<TestBit(row, 0), TestBit(row, 1), TestBit(row, 2), TestBit(row, 3)>>

\* setRGB with the blue mask of the top half one bit too high (0x020000 << plane)
setRGB_Bit24(rgb1, rgb2, p) ==
  <<TestBit(rgb1, p), TestBit(rgb1, p + 8), TestBit(rgb1, p + 17),
    TestBit(rgb2, p), TestBit(rgb2, p + 8), TestBit(rgb2, p + 16)>>

\* setRGB with the green and blue masks of the bottom half exchanged
setRGB_Swapped(rgb1, rgb2, p) ==
  <<TestBit(rgb1, p), TestBit(rgb1, p + 8), TestBit(rgb1, p + 16),
    TestBit(rgb2, p), TestBit(rgb2, p + 16), TestBit(rgb2, p + 8)>>

\* lines 187-209: <<r1, g1, b1, r2, g2, b2>> after setRGB(rgb1, rgb2, p)
setRGB(rgb1, rgb2, p) ==
  <<TestBit(rgb1, p), TestBit(rgb1, p + 8), TestBit(rgb1, p + 16),
    TestBit(rgb2, p), TestBit(rgb2, p + 8), TestBit(rgb2, p + 16)>>

\* the row-pair the address lines select
RowSelected == rowPins[1] + 2 * rowPins[2] + 4 * rowPins[3] + 8 * rowPins[4]

(***************************************************************************)
(* The panel: while the output is enabled, the LEDs of the selected        *)
(* row-pair are lit as the latched row says; column c of the row is the    *)
(* c-th value clocked in before the STROBE.                                *)
(***************************************************************************)
ZeroLit == Words(geom, [k \in Indices(geom) |-> <<0, 0, 0>>])

LitAfter(amount) ==
  LET top    == RowSelected * MATRIX_WIDTH
      bottom == (RowSelected + scan) * MATRIX_WIDTH
      Add(k, first, col) ==
        <<At(lit, k)[1] + amount * latched[col][first],
          At(lit, k)[2] + amount * latched[col][first + 1],
          At(lit, k)[3] + amount * latched[col][first + 2]>>
      After(k) ==
        IF k >= top /\ k - top < Len(latched) /\ k - top < MATRIX_WIDTH
          THEN Add(k, 1, k - top + 1)
        ELSE IF k >= bottom /\ k - bottom < Len(latched) /\ k - bottom < MATRIX_WIDTH
          THEN Add(k, 4, k - bottom + 1)
        ELSE At(lit, k)
  IN  Words(geom, [k \in Indices(geom) |-> After(k)])

(***************************************************************************)
(* displayBuffer (lines 129-142) with showLine (lines 214-219)             *)
(***************************************************************************)
\* the call: s = 0 and the first statement of the body, or the return if scan = 0
EnterDisplayBuffer(who) ==
  /\ caller' = who
  /\ s' = 0
  /\ pc' = IF 0 < scan THEN "setRow" ELSE "return"
  /\ nSetRGB' = 0
  /\ nLatch' = 0
  /\ holds' = <<>>
  /\ driven' = <<>>
  /\ clocked' = <<>>
  /\ lit' = ZeroLit
  /\ passBuffer' = framebuffer

\* line 131, then the headers of the loops of lines 134 and 135
SetRow ==
  /\ pc = "setRow"
  /\ rowPins' = setRow(s)
  /\ plane' = 0
  /\ x' = 0
  /\ pc' = "setRGB"
  /\ UNCHANGED <<caller, geom, lastFrame, framebuffer, gammaTable, counter, i, frame, s,
                 ri, max, stream, draws, rgbPins, dispOn, uartVars, obsVars>>

\* SetRGB with the columns taken from the last to the first
SetRGB_Descending ==
  /\ pc = "setRGB"
  /\ LET offset1 == MATRIX_WIDTH * s
         offset2 == MATRIX_WIDTH * (s + scan)
         col     == MATRIX_WIDTH - 1 - x
     IN  /\ rgbPins' = setRGB(At(framebuffer, offset1 + col), At(framebuffer, offset2 + col), plane)
         /\ driven' = Append(driven, col)
  /\ nSetRGB' = nSetRGB + 1
  /\ pc' = "clk"
  /\ UNCHANGED <<caller, geom, lastFrame, framebuffer, gammaTable, counter, i, frame, s, plane, x,
                 ri, max, stream, draws, rowPins, dispOn, uartVars,
                 nLatch, holds, clocked, latched, lit, passBuffer,
                 nRandomize, nAlive, nStarted, sawReady, cadence>>

\* line 136
SetRGB ==
  /\ pc = "setRGB"
  /\ LET offset1 == MATRIX_WIDTH * s
         offset2 == MATRIX_WIDTH * (s + scan)
     IN  rgbPins' = setRGB(At(framebuffer, offset1 + x), At(framebuffer, offset2 + x), plane)
  /\ nSetRGB' = nSetRGB + 1
  /\ driven' = Append(driven, x)
  /\ pc' = "clk"
  /\ UNCHANGED <<caller, geom, lastFrame, framebuffer, gammaTable, counter, i, frame, s, plane, x,
                 ri, max, stream, draws, rowPins, dispOn, uartVars,
                 nLatch, holds, clocked, latched, lit, passBuffer,
                 nRandomize, nAlive, nStarted, sawReady, cadence>>

\* ClkToggle with the loop of line 135 ending one column early
ClkToggle_ShortRow ==
  /\ pc = "clk"
  /\ clocked' = Append(clocked, rgbPins)
  /\ x' = x + 1
  /\ pc' = IF x + 1 < MATRIX_WIDTH - 1 THEN "setRGB" ELSE "strobe"
  /\ UNCHANGED <<caller, geom, lastFrame, framebuffer, gammaTable, counter, i, frame, s, plane,
                 ri, max, stream, draws, pinVars, uartVars,
                 nSetRGB, nLatch, holds, driven, latched, lit, passBuffer,
                 nRandomize, nAlive, nStarted, sawReady, cadence>>

\* line 137 and the header of the loop of line 135
ClkToggle ==
  /\ pc = "clk"
  /\ clocked' = Append(clocked, rgbPins)
  /\ x' = x + 1
  /\ pc' = IF x + 1 < MATRIX_WIDTH THEN "setRGB" ELSE "strobe"
  /\ UNCHANGED <<caller, geom, lastFrame, framebuffer, gammaTable, counter, i, frame, s, plane,
                 ri, max, stream, draws, pinVars, uartVars,
                 nSetRGB, nLatch, holds, driven, latched, lit, passBuffer,
                 nRandomize, nAlive, nStarted, sawReady, cadence>>

\* line 215
Strobe ==
  /\ pc = "strobe"
  /\ latched' = clocked
  /\ clocked' = <<>>
  /\ driven' = <<>>
  /\ nLatch' = nLatch + 1
  /\ pc' = "dispOn"
  /\ UNCHANGED <<caller, geom, lastFrame, framebuffer, gammaTable, counter, i, frame, s, plane, x,
                 ri, max, stream, draws, pinVars, uartVars,
                 nSetRGB, holds, lit, passBuffer, nRandomize, nAlive, nStarted, sawReady, cadence>>

\* line 216
DispOn ==
  /\ pc = "dispOn"
  /\ dispOn' = TRUE
  /\ pc' = "hold"
  /\ UNCHANGED <<caller, geom, lastFrame, framebuffer, gammaTable, counter, i, frame, s, plane, x,
                 ri, max, stream, draws, rgbPins, rowPins, uartVars, obsVars>>

\* line 217: the busy-wait of showLine(waits[plane])
Hold ==
  /\ pc = "hold"
  /\ LET amount == waits[plane + 1]
     IN  /\ holds' = IF dispOn THEN Append(holds, amount) ELSE holds
         /\ lit' = IF dispOn THEN LitAfter(amount) ELSE lit
  /\ pc' = "dispOff"
  /\ UNCHANGED <<caller, geom, lastFrame, framebuffer, gammaTable, counter, i, frame, s, plane, x,
                 ri, max, stream, draws, pinVars, uartVars,
                 nSetRGB, nLatch, driven, clocked, latched, passBuffer,
                 nRandomize, nAlive, nStarted, sawReady, cadence>>

\* DispOff with setRow called once before the loop of line 130, not in it
DispOff_RowOnce ==
  /\ pc = "dispOff"
  /\ dispOn' = FALSE
  /\ IF plane + 1 < NumPlanes
       THEN /\ plane' = plane + 1
            /\ x' = 0
            /\ s' = s
            /\ pc' = "setRGB"
       ELSE /\ plane' = 0
            /\ x' = 0
            /\ s' = s + 1
            /\ pc' = IF s + 1 < scan THEN "setRGB" ELSE "return"
  /\ UNCHANGED <<caller, geom, lastFrame, framebuffer, gammaTable, counter, i, frame,
                 ri, max, stream, draws, rgbPins, rowPins, uartVars, obsVars>>

\* DispOff with the DISP_OFF of line 218 left out
DispOff_StaysOn ==
  /\ pc = "dispOff"
  /\ dispOn' = dispOn
  /\ IF plane + 1 < NumPlanes
       THEN /\ plane' = plane + 1
            /\ x' = 0
            /\ s' = s
            /\ pc' = "setRGB"
       ELSE /\ plane' = plane + 1
            /\ x' = x
            /\ s' = s + 1
            /\ pc' = IF s + 1 < scan THEN "setRow" ELSE "return"
  /\ UNCHANGED <<caller, geom, lastFrame, framebuffer, gammaTable, counter, i, frame,
                 ri, max, stream, draws, rgbPins, rowPins, uartVars, obsVars>>

\* line 218, then the headers of the loops of lines 134 and 130
DispOff ==
  /\ pc = "dispOff"
  /\ dispOn' = FALSE
  /\ IF plane + 1 < NumPlanes
       THEN /\ plane' = plane + 1
            /\ x' = 0
            /\ s' = s
            /\ pc' = "setRGB"
       ELSE /\ plane' = plane + 1
            /\ x' = x
            /\ s' = s + 1
            /\ pc' = IF s + 1 < scan THEN "setRow" ELSE "return"
  /\ UNCHANGED <<caller, geom, lastFrame, framebuffer, gammaTable, counter, i, frame,
                 ri, max, stream, draws, rgbPins, rowPins, uartVars, obsVars>>

(***************************************************************************)
(* Frames                                                                  *)
(***************************************************************************)
\* line 101: memset(framebuffer, 0, sizeof(framebuffer))
ClearedFrame(g) == Words(g, [k \in Indices(g) |-> 0])

\* lines 104-107: the four corners of the panel (0, 31, 992 and 1023 on the
\* 32x32 panel of the source) get 0x50, 0x5000, 0x500000 and 0x505000
TestPattern(buffer, g) ==
  Words(g, [k \in Indices(g) |->
     IF k = g.width * g.height - 1 THEN 5263360
     ELSE IF k = g.width * (g.height - 1) THEN 5242880
     ELSE IF k = g.width - 1 THEN 20480
     ELSE IF k = 0 THEN 80
     ELSE buffer[k \div g.width][k % g.width]])

\* pixel (0,0) with channel A = 0x50, all else zero
OnePixelFrame(g) == Words(g, [k \in Indices(g) |-> IF k = 0 THEN 80 ELSE 0])

\* every 8-bit intensity occurs in every channel
RampFrame(g) ==
  Words(g, [k \in Indices(g) |->
              (k % 256) + 256 * ((7 * k + 3) % 256) + 65536 * (255 - (k % 256))])

\* the ramp frame with bits 24..30 of every pixel not all zero
HighBitsFrame(g) ==
  Words(g, [k \in Indices(g) |->
              (k % 256) + 256 * ((7 * k + 3) % 256) + 65536 * (255 - (k % 256))
              + 16777216 * ((k % 127) + 1)])

SourcePanel == [width |-> PanelWidth, height |-> PanelHeight]

ScanFrames ==
  {ClearedFrame(SourcePanel), TestPattern(ClearedFrame(SourcePanel), SourcePanel),
   OnePixelFrame(SourcePanel), RampFrame(SourcePanel), HighBitsFrame(SourcePanel)}

(***************************************************************************)
(* ScanSpec: one call displayBuffer(framebuffer) from its first statement  *)
(* to its return                                                           *)
(***************************************************************************)
ScanInit ==
  /\ geom = SourcePanel
  /\ lastFrame = 0
  /\ framebuffer \in ScanFrames
  /\ passBuffer = framebuffer
  /\ pc = "setRow"
  /\ caller = "scan"
  /\ s = 0 /\ plane = 0 /\ x = 0
  /\ gammaTable = GammaBuilt
  /\ counter = 0 /\ i = 0 /\ frame = 0
  /\ ri = 0 /\ max = 0 /\ stream = 0 /\ draws = 0
  /\ rgbPins = <<0, 0, 0, 0, 0, 0>>
  /\ rowPins \in {<<0, 0, 0, 0>>, <<1, 1, 1, 1>>}
  /\ dispOn = FALSE
  /\ UartReady = FALSE /\ txBusy = TRUE /\ rxBusy = TRUE
  /\ nSetRGB = 0 /\ nLatch = 0 /\ holds = <<>>
  /\ driven = <<>> /\ clocked = <<>> /\ latched = <<>>
  /\ lit = Words(SourcePanel, [k \in Indices(SourcePanel) |-> <<0, 0, 0>>])
  /\ nRandomize = 0 /\ nAlive = 0 /\ nStarted = 0 /\ sawReady = FALSE
  /\ cadence = NoCadence

ScanNext == SetRow \/ SetRGB \/ ClkToggle \/ Strobe \/ DispOn \/ Hold \/ DispOff

ScanSpec == ScanInit /\ [][ScanNext]_vars

(***************************************************************************)
(* rand(): the k-th value of one of NumRandStreams sequences over          *)
(* 0..RAND_MAX (32767); which sequence a call of randomizeFramebuffer      *)
(* draws from is not determined by the program.                            *)
(***************************************************************************)
Rand(st, k) == (st * 7919 + k * 10473 + (k % 97) * (k % 89) * 31) % 32768

\* RandomPixel with the draws not reduced below the ceiling
RandomPixel_Unbounded(table, m, st, k) ==
    table[Rand(st, k) % 256]
  + 256 * table[Rand(st, k + 1) % 256]
  + 65536 * table[Rand(st, k + 2) % 256]

\* lines 155-158: the pixel packed from three draws below the ceiling m
RandomPixel(table, m, st, k) ==
    table[Rand(st, k) % m]
  + 256 * table[Rand(st, k + 1) % m]
  + 65536 * table[Rand(st, k + 2) % m]

\* lines 151-152: the ceiling for the counter value c
Ceiling(table, c) == IF table[c] = 0 THEN 1 ELSE table[c]

(***************************************************************************)
(* The UART driver (HAL): a transmission is accepted unless one is in      *)
(* flight (HAL_BUSY, which main ignores); its completion interrupt calls   *)
(* HAL_UART_TxCpltCallback, that of the reception HAL_UART_RxCpltCallback. *)
(***************************************************************************)
TransmitAccepted == ~txBusy

\* a transmit-complete callback that leaves the flag alone, as
\* HAL_UART_ErrorCallback does
HAL_UART_TxCpltCallback_Silent ==
  /\ txBusy
  /\ txBusy' = FALSE
  /\ UNCHANGED <<progVars, pinVars, UartReady, rxBusy, obsVars>>

\* line 224
HAL_UART_TxCpltCallback ==
  /\ txBusy
  /\ txBusy' = FALSE
  /\ UartReady' = TRUE
  /\ UNCHANGED <<progVars, pinVars, rxBusy, obsVars>>

\* a receive-complete callback that stores a received byte in the framebuffer
HAL_UART_RxCpltCallback_Store ==
  /\ rxBusy
  /\ rxBusy' = FALSE
  /\ UartReady' = TRUE
  /\ framebuffer' = Store(framebuffer, 0, 255)
  /\ UNCHANGED <<pc, caller, geom, lastFrame, gammaTable, counter, i, frame, s, plane, x,
                 ri, max, stream, draws, pinVars, txBusy, obsVars>>

\* line 225
HAL_UART_RxCpltCallback ==
  /\ rxBusy
  /\ rxBusy' = FALSE
  /\ UartReady' = TRUE
  /\ UNCHANGED <<progVars, pinVars, txBusy, obsVars>>

(***************************************************************************)
(* main (lines 87-124)                                                     *)
(***************************************************************************)
\* line 92
StartTransmit ==
  /\ pc = "startTransmit"
  /\ txBusy' = TRUE
  /\ pc' = "startReceive"
  /\ UNCHANGED <<caller, geom, lastFrame, framebuffer, gammaTable, counter, i, frame, s, plane, x,
                 ri, max, stream, draws, pinVars, UartReady, rxBusy, obsVars>>

\* line 93
StartReceive ==
  /\ pc = "startReceive"
  /\ rxBusy' = TRUE
  /\ pc' = "initDispOff"
  /\ UNCHANGED <<caller, geom, lastFrame, framebuffer, gammaTable, counter, i, frame, s, plane, x,
                 ri, max, stream, draws, pinVars, UartReady, txBusy, obsVars>>

\* line 95
InitDispOff ==
  /\ pc = "initDispOff"
  /\ dispOn' = FALSE
  /\ pc' = "buildGamma"
  /\ UNCHANGED <<caller, geom, lastFrame, framebuffer, gammaTable, counter, i, frame, s, plane, x,
                 ri, max, stream, draws, rgbPins, rowPins, uartVars, obsVars>>

\* line 98
BuildGamma ==
  /\ pc = "buildGamma"
  /\ gammaTable' = GammaBuilt
  /\ pc' = "clear"
  /\ UNCHANGED <<caller, geom, lastFrame, framebuffer, counter, i, frame, s, plane, x,
                 ri, max, stream, draws, pinVars, uartVars, obsVars>>

\* line 101
ClearFramebuffer ==
  /\ pc = "clear"
  /\ framebuffer' = ClearedFrame(geom)
  /\ pc' = "testPattern"
  /\ UNCHANGED <<caller, geom, lastFrame, gammaTable, counter, i, frame, s, plane, x,
                 ri, max, stream, draws, pinVars, uartVars, obsVars>>

\* lines 104-107, then int i = 0 of line 110
FillTestPattern ==
  /\ pc = "testPattern"
  /\ framebuffer' = TestPattern(framebuffer, geom)
  /\ i' = 0
  /\ pc' = "testLoop"
  /\ UNCHANGED <<caller, geom, lastFrame, gammaTable, counter, frame, s, plane, x,
                 ri, max, stream, draws, pinVars, uartVars, obsVars>>

\* TestLoop with the loop of line 110 ending one pass early
TestLoop_OneShort ==
  /\ pc = "testLoop"
  /\ IF i < TestPasses - 1
       THEN /\ EnterDisplayBuffer("test")
            /\ UNCHANGED <<frame, latched, nRandomize, nAlive, nStarted, sawReady, cadence>>
       ELSE /\ frame' = 0
            /\ pc' = "loop"
            /\ UNCHANGED <<caller, s, obsVars>>
  /\ UNCHANGED <<geom, lastFrame, framebuffer, gammaTable, counter, i, plane, x,
                 ri, max, stream, draws, pinVars, uartVars>>

\* lines 110-111: the next test pass, or int frame = 0 of line 114
TestLoop ==
  /\ pc = "testLoop"
  /\ IF i < TestPasses
       THEN /\ EnterDisplayBuffer("test")
            /\ UNCHANGED <<frame, latched, nRandomize, nAlive, nStarted, sawReady, cadence>>
       ELSE /\ frame' = 0
            /\ pc' = "loop"
            /\ UNCHANGED <<caller, s, obsVars>>
  /\ UNCHANGED <<geom, lastFrame, framebuffer, gammaTable, counter, i, plane, x,
                 ri, max, stream, draws, pinVars, uartVars>>

\* line 116; the loop never ends, the model follows it until frame is lastFrame
Loop ==
  /\ pc = "loop"
  /\ frame # lastFrame
  /\ EnterDisplayBuffer("loop")
  /\ UNCHANGED <<geom, lastFrame, framebuffer, gammaTable, counter, i, frame, plane, x,
                 ri, max, stream, draws, pinVars, uartVars,
                 latched, nRandomize, nAlive, nStarted, sawReady, cadence>>

\* AfterRandomize with the heartbeat every 100 frames
AfterRandomize_Every100(f) == IF f % 100 = 0 THEN "uartWait" ELSE "loop"

\* line 118, for the value f of frame: the statement after it
AfterRandomize(f) == IF f % AliveEvery = 0 THEN "uartWait" ELSE "loop"

\* int frame is 32 bits wide
INT_MIN == -INT_MAX - 1

\* ++frame of line 117: past INT_MAX the behaviour is undefined; the builds
\* either wrap to INT_MIN or trap
Increment(f) ==
  IF f = INT_MAX
    THEN {[trap |-> FALSE, value |-> INT_MIN], [trap |-> TRUE, value |-> f]}
    ELSE {[trap |-> FALSE, value |-> f + 1]}

\* an 8-bit counter that stops at 255
NextCounter_Saturating(c) == IF c = 255 THEN 255 ELSE c + 1

\* counter++ of line 149, counter being a uint8_t
NextCounter(c) == (c + 1) % 256

\* the return of displayBuffer: i++ of line 110, or lines 117-118 and the
\* entry of randomizeFramebuffer (lines 149-154)
Return ==
  /\ pc = "return"
  /\ IF caller = "test"
       THEN /\ i' = i + 1
            /\ pc' = "testLoop"
            /\ UNCHANGED <<frame, counter, max, ri, stream, nRandomize, cadence>>
       ELSE \E o \in Increment(frame) :
            /\ frame' = o.value
            /\ i' = i
            /\ IF o.trap
                 THEN /\ pc' = "trap"
                      /\ UNCHANGED <<counter, max, ri, stream, nRandomize, cadence>>
                 ELSE IF o.value % RandomizeEvery = 0
                 THEN /\ counter' = NextCounter(counter)
                      /\ max' = Ceiling(gammaTable, NextCounter(counter))
                      /\ ri' = 0
                      /\ \E st \in 1..NumRandStreams : stream' = st
                      /\ nRandomize' = nRandomize + 1
                      /\ cadence' = [cadence EXCEPT !.gapRandomize = cadence.sinceRandomize + 1,
                                                    !.sinceRandomize = 0,
                                                    !.sinceAlive = @ + 1]
                      /\ pc' = IF 0 < MATRIX_SIZE THEN "randomPixel"
                                                  ELSE AfterRandomize(o.value)
                 ELSE /\ pc' = AfterRandomize(o.value)
                      /\ cadence' = [cadence EXCEPT !.sinceRandomize = @ + 1,
                                                    !.sinceAlive = @ + 1]
                      /\ UNCHANGED <<counter, max, ri, stream, nRandomize>>
  /\ UNCHANGED <<caller, geom, lastFrame, framebuffer, gammaTable, s, plane, x, draws,
                 pinVars, uartVars,
                 nSetRGB, nLatch, holds, driven, clocked, latched, lit, passBuffer,
                 nAlive, nStarted, sawReady>>

\* lines 155-158 and the header of the loop of line 154
RandomPixelWrite ==
  /\ pc = "randomPixel"
  /\ framebuffer' = Store(framebuffer, ri, RandomPixel(gammaTable, max, stream, draws))
  /\ draws' = draws + 3
  /\ ri' = ri + 1
  /\ pc' = IF ri + 1 < MATRIX_SIZE THEN "randomPixel" ELSE AfterRandomize(frame)
  /\ UNCHANGED <<caller, geom, lastFrame, gammaTable, counter, i, frame, s, plane, x,
                 max, stream, pinVars, uartVars, obsVars>>

\* UartWait that reads the flag once and goes on whatever it read
UartWait_NoWait ==
  /\ pc = "uartWait"
  /\ sawReady' = UartReady
  /\ pc' = "clearReady"
  /\ UNCHANGED <<caller, geom, lastFrame, framebuffer, gammaTable, counter, i, frame, s, plane, x,
                 ri, max, stream, draws, pinVars, uartVars,
                 nSetRGB, nLatch, holds, driven, clocked, latched, lit, passBuffer,
                 nRandomize, nAlive, nStarted, cadence>>

\* line 119: the busy-wait leaves once it reads SET
UartWait ==
  /\ pc = "uartWait"
  /\ UartReady
  /\ sawReady' = UartReady
  /\ pc' = "clearReady"
  /\ UNCHANGED <<caller, geom, lastFrame, framebuffer, gammaTable, counter, i, frame, s, plane, x,
                 ri, max, stream, draws, pinVars, uartVars,
                 nSetRGB, nLatch, holds, driven, clocked, latched, lit, passBuffer,
                 nRandomize, nAlive, nStarted, cadence>>

\* line 120
ClearReady ==
  /\ pc = "clearReady"
  /\ UartReady' = FALSE
  /\ pc' = "transmitAlive"
  /\ UNCHANGED <<caller, geom, lastFrame, framebuffer, gammaTable, counter, i, frame, s, plane, x,
                 ri, max, stream, draws, pinVars, txBusy, rxBusy, obsVars>>

\* line 121
TransmitAlive ==
  /\ pc = "transmitAlive"
  /\ nAlive' = nAlive + 1
  /\ IF TransmitAccepted
       THEN txBusy' = TRUE /\ nStarted' = nStarted + 1
       ELSE UNCHANGED <<txBusy, nStarted>>
  /\ sawReady' = FALSE
  /\ cadence' = [cadence EXCEPT !.gapAlive = cadence.sinceAlive, !.sinceAlive = 0]
  /\ pc' = "loop"
  /\ UNCHANGED <<caller, geom, lastFrame, framebuffer, gammaTable, counter, i, frame, s, plane, x,
                 ri, max, stream, draws, pinVars, UartReady, rxBusy,
                 nSetRGB, nLatch, holds, driven, clocked, latched, lit, passBuffer,
                 nRandomize>>

(***************************************************************************)
(* Spec: the program from the entry of main, after initGPIO and initUART   *)
(***************************************************************************)
SmallPanel == [width |-> SmallWidth, height |-> 2 * SmallScan]

MainInit(limit) ==
  /\ geom = SmallPanel
  /\ lastFrame = limit
  /\ framebuffer = ClearedFrame(SmallPanel)
  /\ passBuffer = framebuffer
  /\ pc = "startTransmit"
  /\ caller = "none"
  /\ s = 0 /\ plane = 0 /\ x = 0
  /\ gammaTable = [k \in 0..(GammaSize - 1) |-> 0]
  /\ counter = 0 /\ i = 0 /\ frame = 0
  /\ ri = 0 /\ max = 0 /\ stream = 0 /\ draws = 0
  /\ rgbPins = <<0, 0, 0, 0, 0, 0>>
  /\ rowPins = <<0, 0, 0, 0>>
  /\ dispOn \in BOOLEAN
  /\ UartReady = FALSE /\ txBusy = FALSE /\ rxBusy = FALSE
  /\ nSetRGB = 0 /\ nLatch = 0 /\ holds = <<>>
  /\ driven = <<>> /\ clocked = <<>> /\ latched = <<>>
  /\ lit = Words(SmallPanel, [k \in Indices(SmallPanel) |-> <<0, 0, 0>>])
  /\ nRandomize = 0 /\ nAlive = 0 /\ nStarted = 0 /\ sawReady = FALSE
  /\ cadence = NoCadence

Init == MainInit(MaxFrame)

Main ==
  \/ StartTransmit \/ StartReceive \/ InitDispOff \/ BuildGamma
  \/ ClearFramebuffer \/ FillTestPattern \/ TestLoop \/ Loop \/ Return
  \/ RandomPixelWrite \/ UartWait \/ ClearReady \/ TransmitAlive
  \/ SetRow \/ SetRGB \/ ClkToggle \/ Strobe \/ DispOn \/ Hold \/ DispOff

Next == Main \/ HAL_UART_TxCpltCallback \/ HAL_UART_RxCpltCallback

Spec == Init /\ [][Next]_vars

(***************************************************************************)
(* LongSpec: the program with each call of displayBuffer taken as one      *)
(* step, followed for LongMaxFrame frames.  displayBuffer reads and writes *)
(* nothing the interrupts touch, so the step stands for every interleaving *)
(* of the call with them.                                                  *)
(***************************************************************************)
\* the time the planes of the 8-bit intensity v are held
Held(v) ==
    waits[1] * TestBit(v, 0) + waits[2] * TestBit(v, 1)
  + waits[3] * TestBit(v, 2) + waits[4] * TestBit(v, 3)
  + waits[5] * TestBit(v, 4) + waits[6] * TestBit(v, 5)
  + waits[7] * TestBit(v, 6) + waits[8] * TestBit(v, 7)

\* lines 129-142 as a whole: what a call leaves behind
DisplayBuffer ==
  /\ pc = "setRow"
  /\ s = 0
  /\ LET lastTop    == MATRIX_WIDTH * (scan - 1)
         lastBottom == MATRIX_WIDTH * (2 * scan - 1)
         LastRow == [c \in 1..MATRIX_WIDTH |->
                       setRGB(At(framebuffer, lastTop + c - 1), At(framebuffer, lastBottom + c - 1),
                              NumPlanes - 1)]
     IN  /\ rowPins' = setRow(scan - 1)
         /\ rgbPins' = LastRow[MATRIX_WIDTH]
         /\ latched' = LastRow
  /\ dispOn' = FALSE
  /\ s' = scan
  /\ plane' = NumPlanes
  /\ x' = MATRIX_WIDTH
  /\ nSetRGB' = scan * NumPlanes * MATRIX_WIDTH
  /\ nLatch' = scan * NumPlanes
  /\ holds' = [k \in 1..(scan * NumPlanes) |-> waits[((k - 1) % NumPlanes) + 1]]
  /\ driven' = <<>>
  /\ clocked' = <<>>
  /\ lit' = Words(geom, [k \in Indices(geom) |->
               IF k < 2 * scan * MATRIX_WIDTH
                 THEN <<Held(Channel(At(framebuffer, k), 0)),
                        Held(Channel(At(framebuffer, k), 8)),
                        Held(Channel(At(framebuffer, k), 16))>>
                 ELSE <<0, 0, 0>>])
  /\ pc' = "return"
  /\ UNCHANGED <<caller, geom, lastFrame, framebuffer, gammaTable, counter, i, frame,
                 ri, max, stream, draws, uartVars, passBuffer,
                 nRandomize, nAlive, nStarted, sawReady, cadence>>

LongInit == MainInit(LongMaxFrame)

LongMain ==
  \/ StartTransmit \/ StartReceive \/ InitDispOff \/ BuildGamma
  \/ ClearFramebuffer \/ FillTestPattern \/ TestLoop \/ Loop \/ Return
  \/ RandomPixelWrite \/ UartWait \/ ClearReady \/ TransmitAlive
  \/ DisplayBuffer

LongNext == LongMain \/ HAL_UART_TxCpltCallback \/ HAL_UART_RxCpltCallback

LongSpec == LongInit /\ [][LongNext]_vars

\* the main thread always runs; a transfer that was started completes
LiveSpec ==
  /\ LongSpec
  /\ WF_vars(LongMain)
  /\ WF_vars(HAL_UART_TxCpltCallback)
  /\ WF_vars(HAL_UART_RxCpltCallback)

\* what DisplayBuffer leaves is what the statements of displayBuffer leave
PassAgrees ==
  pc = "return" =>
    LET lastTop    == MATRIX_WIDTH * (scan - 1)
        lastBottom == MATRIX_WIDTH * (2 * scan - 1)
        LastRow == [c \in 1..MATRIX_WIDTH |->
                      setRGB(At(framebuffer, lastTop + c - 1), At(framebuffer, lastBottom + c - 1),
                             NumPlanes - 1)]
    IN  /\ rowPins = setRow(scan - 1)
        /\ rgbPins = LastRow[MATRIX_WIDTH]
        /\ latched = LastRow
        /\ ~dispOn
        /\ s = scan /\ plane = NumPlanes /\ x = MATRIX_WIDTH
        /\ nSetRGB = scan * NumPlanes * MATRIX_WIDTH
        /\ nLatch = scan * NumPlanes
        /\ holds = [k \in 1..(scan * NumPlanes) |-> waits[((k - 1) % NumPlanes) + 1]]
        /\ driven = <<>> /\ clocked = <<>>
        /\ lit = Words(geom, [k \in Indices(geom) |->
                    IF k < 2 * scan * MATRIX_WIDTH
                      THEN <<Held(Channel(At(framebuffer, k), 0)),
                             Held(Channel(At(framebuffer, k), 8)),
                             Held(Channel(At(framebuffer, k), 16))>>
                      ELSE <<0, 0, 0>>])

(***************************************************************************)
(* CounterSpec: LongSpec followed for CounterMaxFrame frames, past the     *)
(* 256th call of randomizeFramebuffer                                      *)
(***************************************************************************)
CounterInit == MainInit(CounterMaxFrame)

CounterSpec == CounterInit /\ [][LongNext]_vars

(***************************************************************************)
(* WrapSpec: the endless loop from the last heartbeat request before frame *)
(* reaches INT_MAX, at frame 2147483600, until WrapFrames frames past      *)
(* INT_MIN.  The state is the one the loop is in after 2147483600 passes:  *)
(* randomizeFramebuffer was called at every fifth of them and has just     *)
(* filled the framebuffer, the heartbeat was requested at every 200th and  *)
(* the last one is in flight.  The observers of the pass start afresh.     *)
(***************************************************************************)
WrapStart == INT_MAX - 47

WrapInit ==
  /\ geom = SmallPanel
  /\ lastFrame = INT_MIN + WrapFrames
  /\ frame = WrapStart
  /\ pc = "loop"
  /\ caller = "loop"
  /\ i = TestPasses
  /\ s = SmallScan /\ plane = NumPlanes /\ x = SmallWidth
  /\ gammaTable = GammaBuilt
  /\ nRandomize = WrapStart \div RandomizeEvery
  /\ nAlive = WrapStart \div AliveEvery
  /\ nStarted = nAlive
  /\ counter = nRandomize % 256
  /\ max = Ceiling(gammaTable, counter)
  /\ ri = SmallWidth * 2 * SmallScan
  /\ stream = 1
  /\ draws = 3 * ri
  /\ framebuffer = Words(SmallPanel, [k \in Indices(SmallPanel) |->
                                        RandomPixel(gammaTable, max, stream, 3 * k)])
  /\ passBuffer = framebuffer
  /\ rgbPins = <<0, 0, 0, 0, 0, 0>>
  /\ rowPins = setRow(SmallScan - 1)
  /\ dispOn = FALSE
  /\ UartReady = FALSE /\ txBusy = TRUE /\ rxBusy \in BOOLEAN
  /\ nSetRGB = 0 /\ nLatch = 0 /\ holds = <<>>
  /\ driven = <<>> /\ clocked = <<>> /\ latched = <<>>
  /\ lit = Words(SmallPanel, [k \in Indices(SmallPanel) |-> <<0, 0, 0>>])
  /\ sawReady = FALSE
  /\ cadence = [sinceRandomize |-> 0, sinceAlive |-> 0,
                gapRandomize |-> RandomizeEvery, gapAlive |-> AliveEvery]

WrapNext ==
  \/ Loop \/ DisplayBuffer \/ Return \/ RandomPixelWrite
  \/ UartWait \/ ClearReady \/ TransmitAlive
  \/ HAL_UART_TxCpltCallback \/ HAL_UART_RxCpltCallback

WrapSpec == WrapInit /\ [][WrapNext]_vars

(***************************************************************************)
(* Properties                                                              *)
(***************************************************************************)
\* the statements of displayBuffer and showLine
ScanPcs == {"setRow", "setRGB", "clk", "strobe", "dispOn", "hold", "dispOff", "return"}

\* <<0, 1, ..., n-1>>
Ascending(n) == [k \in 1..n |-> k - 1]

\* bit k of v, by remainders
BitOf(v, k) == IF v % (2 * Pow2(k)) >= Pow2(k) THEN 1 ELSE 0

\* C1: the display output is disabled whenever a row address, a colour line,
\* the shift clock or the latch is about to be written, whenever
\* randomizeFramebuffer is about to write a pixel and while main waits for
\* the UART flag; once line 95 has run it is enabled only during the
\* busy-wait of showLine and up to the DISP_OFF that follows it.
C1_DisplayOffOutsideHold ==
  /\ pc \in {"setRow", "setRGB", "clk", "strobe", "randomPixel", "uartWait"} => ~dispOn
  /\ pc \notin {"startTransmit", "startReceive", "initDispOff"} =>
       (dispOn => pc \in {"hold", "dispOff"})

\* C1 witness: main spins on the flag at frame 200 with the display off
C1_Witness ==
  /\ pc = "uartWait" /\ ~UartReady /\ ~dispOn
  /\ frame = AliveEvery /\ nLatch = scan * NumPlanes

\* C2: when a call of displayBuffer returns it has made exactly 16*8*32 = 4096
\* calls of setRGB, 128 latch pulses and 128 holds with the display enabled
\* (32 calls before each latch pulse, one hold after it), and the k-th hold
\* lasted waits[(k-1) mod 8]: 10, 20, ..., 1280 for each row-pair in turn.
C2_PassCounts ==
  /\ pc = "return" =>
       /\ nSetRGB = 16 * 8 * 32
       /\ nLatch = 16 * 8
       /\ Len(holds) = 16 * 8
  /\ pc = "strobe" =>
       /\ nLatch = 8 * s + plane
       /\ nSetRGB = 32 * (nLatch + 1)
       /\ Len(holds) = nLatch
  /\ \A k \in 1..Len(holds) :
       holds[k] = <<10, 20, 40, 80, 160, 320, 640, 1280>>[((k - 1) % 8) + 1]

\* C2 witness: the pass over the all-zero framebuffer has returned
C2_Witness ==
  /\ pc = "return" /\ framebuffer = ClearedFrame(SourcePanel)
  /\ nSetRGB = 4096 /\ nLatch = 128 /\ Len(holds) = 128

\* C3: between two latch pulses the columns are driven in the order 0, 1, ...,
\* each drive followed by one clock pulse before the next drive; the latch
\* pulse comes only after the 32 columns 0..31, and the display is not enabled
\* and no latch is pulsed while a row is partly shifted in.
C3_ColumnOrder ==
  /\ pc = "setRGB" => x < 32 /\ driven = Ascending(x) /\ Len(clocked) = x
  /\ pc = "clk" => x < 32 /\ driven = Ascending(x + 1) /\ Len(clocked) = x
  /\ pc = "strobe" => driven = Ascending(32) /\ Len(clocked) = 32
  /\ driven # <<>> => pc \in {"setRGB", "clk", "strobe"} /\ ~dispOn
  /\ pc \in {"dispOn", "hold", "dispOff"} => Len(latched) = 32

\* C3 witness: the latch pulse of the last plane of row-pair 1 is due
C3_Witness ==
  /\ pc = "strobe" /\ s = 1 /\ plane = 7
  /\ driven = Ascending(32) /\ Len(clocked) = 32

\* C4: at the clock pulse for row-pair s, plane p and column x the three top
\* lines are bits p, p+8 and p+16 of framebuffer[s*32+x] and the three bottom
\* lines are the same bits of framebuffer[(s+16)*32+x]; with only pixel (0,0)
\* set, to 0x50, line r1 is high exactly at column 0 of row-pair 0 in planes 4
\* and 6, and every other line is low throughout.
C4_ColourLines ==
  pc = "clk" =>
    /\ LET top    == At(framebuffer, s * 32 + x)
           bottom == At(framebuffer, (s + 16) * 32 + x)
       IN  rgbPins = <<BitOf(top, plane), BitOf(top, plane + 8), BitOf(top, plane + 16),
                       BitOf(bottom, plane), BitOf(bottom, plane + 8),
                       BitOf(bottom, plane + 16)>>
    /\ framebuffer = OnePixelFrame(SourcePanel) =>
         /\ rgbPins[1] = 1 <=> (s = 0 /\ x = 0 /\ plane \in {4, 6})
         /\ \A n \in 2..6 : rgbPins[n] = 0

\* C4 witness: plane 6 of pixel (0,0) = 0x50 is on line r1 at its clock pulse
C4_Witness ==
  /\ pc = "clk" /\ framebuffer = OnePixelFrame(SourcePanel)
  /\ s = 0 /\ x = 0 /\ plane = 6 /\ rgbPins[1] = 1

\* C5: the hold table doubles from entry to entry, so that when a pass returns
\* every channel of every pixel has been lit for waits[0] times its 8-bit
\* intensity; a channel of intensity 2v (v <= 127) has been lit twice as long
\* as one of intensity v.
C5_LitProportional ==
  /\ \A p \in 1..7 : waits[p + 1] = 2 * waits[p]
  /\ pc = "return" =>
       /\ \A k \in 0..(MATRIX_SIZE - 1) : \A c \in 1..3 :
            At(lit, k)[c] = waits[1] * ((At(framebuffer, k) \div Pow2(8 * (c - 1))) % 256)
       /\ \A j, k \in 0..255 :
            At(framebuffer, j) % 256 = 2 * (At(framebuffer, k) % 256)
              => At(lit, j)[1] = 2 * At(lit, k)[1]

\* C5 witness: the ramp frame was shown; intensities 50, 100 and 255 were lit
\* for 500, 1000 and 2550
C5_Witness ==
  /\ pc = "return" /\ framebuffer = RampFrame(SourcePanel)
  /\ At(lit, 50)[1] = 500 /\ At(lit, 100)[1] = 1000 /\ At(lit, 255)[1] = 2550

\* C6: whenever the loop is about to start the next pass, randomizeFramebuffer
\* has been called once per 5 completed frames and the heartbeat has been
\* requested once per 200; after 1000 frames that is 200 calls and 5 requests.
C6_Cadence ==
  pc = "loop" =>
    /\ nRandomize = frame \div 5
    /\ nAlive = frame \div 200
    /\ frame = 1000 => nRandomize = 200 /\ nAlive = 5

\* C6 witness: frame 1000 is complete
C6_Witness == pc = "loop" /\ frame = 1000 /\ nRandomize = 200 /\ nAlive = 5

\* C7: main is at lines 119-121 only with frame a positive multiple of 200;
\* it clears the flag and requests the heartbeat only after the wait of line
\* 119 has read the flag set since the last request, and the flag goes from
\* SET to RESET only by line 120.
C7_InHandshake ==
  pc \in {"uartWait", "clearReady", "transmitAlive"} =>
    /\ frame > 0 /\ frame % 200 = 0
    /\ pc = "clearReady" => sawReady /\ UartReady
    /\ pc = "transmitAlive" => sawReady

\* C7, as a property of behaviours: the above in every state, and in every
\* step the flag is reset only by line 120 after the wait has read it set, and
\* a heartbeat is requested only by line 121 after that.
C7_Handshake ==
  /\ []C7_InHandshake
  /\ [][/\ (UartReady /\ ~UartReady') => (pc = "clearReady" /\ sawReady)
        /\ nAlive' # nAlive => (pc = "transmitAlive" /\ sawReady /\ ~sawReady')]_vars

\* C7 witness: the second heartbeat is about to be requested
C7_Witness == pc = "transmitAlive" /\ frame = 400 /\ nAlive = 1 /\ sawReady

\* C8: if the main thread keeps running and every transfer that was started
\* completes, each wait of line 119 ends and the loop goes on to complete
\* every frame the model follows.
C8_WaitEnds ==
  /\ (pc = "uartWait") ~> (pc = "clearReady")
  /\ <>(pc = "loop" /\ frame = lastFrame)

\* C8 witness: main spins on the flag at frame 400, the first heartbeat still
\* in flight
C8_Witness == pc = "uartWait" /\ ~UartReady /\ frame = 400 /\ txBusy /\ nStarted = 1

\* C9: while displayBuffer runs the framebuffer is the one it was called
\* with, and a pass after a call of randomizeFramebuffer starts only once
\* that call has written all MATRIX_SIZE pixels.
C9_FrameStable ==
  /\ pc \in ScanPcs =>
       /\ framebuffer = passBuffer
       /\ nRandomize > 0 => ri = MATRIX_SIZE
  /\ pc = "randomPixel" => ri < MATRIX_SIZE

\* C9 witness: mid-pass after a randomize call, both completion interrupts
\* taken, the frame not all dark
C9_Witness ==
  /\ pc = "hold" /\ caller = "loop" /\ nRandomize > 0
  /\ ~rxBusy /\ ~txBusy /\ UartReady
  /\ \E k \in 0..(MATRIX_SIZE - 1) : At(framebuffer, k) # 0

\* C10: once built, the gamma table is non-decreasing over 0..255 with
\* table(0) = 0 and table(255) = 255.
C10_GammaEndpoints ==
  pc \notin {"startTransmit", "startReceive", "initDispOff", "buildGamma"} =>
    /\ \A k \in 0..254 : gammaTable[k] <= gammaTable[k + 1]
    /\ gammaTable[0] = 0
    /\ gammaTable[255] = 255

\* C11: once randomizeFramebuffer has been called, the ceiling of the running
\* (or last) call is at least 1 and no channel of a pixel that call has
\* written exceeds it.
C11_BelowCeiling ==
  nRandomize > 0 =>
    /\ max >= 1
    /\ \A k \in 0..(ri - 1) : \A shift \in {0, 8, 16} :
         Channel(At(framebuffer, k), shift) <= max

\* C11 witness: a call has written every pixel, one of them with a channel
\* that is lit and below the ceiling
C11_Witness ==
  /\ nRandomize > 0 /\ pc = "loop" /\ ri = MATRIX_SIZE
  /\ \E k \in 0..(MATRIX_SIZE - 1) : \E shift \in {0, 8, 16} :
       /\ Channel(At(framebuffer, k), shift) > 0
       /\ Channel(At(framebuffer, k), shift) <= max

\* the number of non-zero 8-bit channels of the pixel v
ChannelsSet(v) ==
    (IF Channel(v, 0) > 0 THEN 1 ELSE 0)
  + (IF Channel(v, 8) > 0 THEN 1 ELSE 0)
  + (IF Channel(v, 16) > 0 THEN 1 ELSE 0)

\* the indices of the four corner pixels: 0, 31, 992 and 1023 on the 32x32 panel
Corners ==
  {0, MATRIX_WIDTH - 1, MATRIX_WIDTH * (MATRIX_HEIGHT - 1), MATRIX_SIZE - 1}

\* C12: when the test pattern has been filled in (line 110 is reached for the
\* first time) the framebuffer is zero except at the four corner pixels, each
\* corner holds a value with exactly one non-zero channel, and the four
\* values are pairwise distinct.
C12_TestPattern ==
  (pc = "testLoop" /\ i = 0) =>
    /\ \A k \in 0..(MATRIX_SIZE - 1) : k \notin Corners => At(framebuffer, k) = 0
    /\ \A k \in Corners : ChannelsSet(At(framebuffer, k)) = 1
    /\ \A j, k \in Corners : j # k => At(framebuffer, j) # At(framebuffer, k)

\* C13: after setRow(s), for each row-pair s of the pass (0..15), the address
\* lines A, B, C, D read as bits 0, 1, 2, 3 give s.
C13_RowDecodes ==
  pc \in {"setRGB", "clk", "strobe", "dispOn", "hold", "dispOff"} =>
    rowPins[1] + 2 * rowPins[2] + 4 * rowPins[3] + 8 * rowPins[4] = s

\* C13 witness: row-pair 5 is addressed, the lines are 1, 0, 1, 0
C13_Witness == pc = "setRGB" /\ s = 5 /\ plane = 0 /\ x = 0 /\ rowPins = <<1, 0, 1, 0>>

\* C14: the address lines change only in the setRow of line 131, which runs
\* once per row-pair, right before the first column drive of plane 0 and
\* only after the last hold of the row-pair before; the row-pairs come in the
\* order 0, 1, ..., 15, and through the shift-outs, latches and holds of
\* row-pair s the lines select s.
C14_RowStable ==
  /\ [](pc \in {"setRGB", "clk", "strobe", "dispOn", "hold", "dispOff"} =>
          (RowSelected = s /\ s \in 0..15 /\ nLatch \in (8 * s)..(8 * s + 8)))
  /\ [](pc = "return" => s = 16)
  /\ [][/\ rowPins' # rowPins => pc = "setRow"
        /\ pc = "setRow" => (pc' = "setRGB" /\ s' = s /\ plane' = 0 /\ x' = 0)
        /\ pc' = "setRow" => (pc = "dispOff" /\ plane = 7 /\ s' = s + 1)
        /\ (pc = "dispOff" /\ plane = 7) => pc' \in {"setRow", "return"}
        /\ s' \in {s, s + 1}]_vars

\* C14 witness: the last hold of row-pair 1 is over, the lines still select
\* row-pair 1 and 16 latches were pulsed
C14_Witness ==
  /\ pc = "dispOff" /\ s = 1 /\ plane = 7 /\ rowPins = <<1, 0, 0, 0>> /\ nLatch = 16

\* C15: when main is about to request a heartbeat transmission (line 121), no
\* transmission requested earlier is still in flight.
C15_NoTransmitInFlight == pc = "transmitAlive" => ~txBusy

\* C16: at every call of randomizeFramebuffer exactly 5 passes of the endless
\* loop were completed since the call before (or since the loop began), and
\* at every heartbeat request exactly 200 since the request before, also
\* when frame is incremented past INT_MAX.
C16_CadenceForever ==
  /\ nRandomize > 0 => cadence.gapRandomize = 5
  /\ nAlive > 0 => cadence.gapAlive = 200

\* C17: the counter of randomizeFramebuffer is the number of calls modulo 256
\* and the ceiling of the k-th call is gammaTable[k mod 256], or 1 where that
\* entry is 0; at the 256th call the counter is back at 0.
C17_CeilingPeriodic ==
  (nRandomize > 0 /\ pc \notin {"startTransmit", "startReceive", "initDispOff", "buildGamma"}) =>
    /\ counter = nRandomize % 256
    /\ max = IF gammaTable[nRandomize % 256] > 1 THEN gammaTable[nRandomize % 256] ELSE 1
    /\ nRandomize = 256 => counter = 0 /\ max = 1

\* C17 witness: the 257th call runs with the ceiling of the first; the 40th
\* had a ceiling above 1
C17_Witness ==
  /\ pc = "randomPixel" /\ nRandomize = 257 /\ counter = 1
  /\ max = 1 /\ gammaTable[40] > 1

\* bits 0..23 of the pixel v
Low24(v) == v % 16777216

\* what a pass over the framebuffer with bits 24.. of every pixel cleared has
\* on the colour lines at column c (from 0) of row-pair s, plane p
MaskedLines(c, p) ==
  setRGB(Low24(At(framebuffer, 32 * s + c)), Low24(At(framebuffer, 32 * (s + 16) + c)), p)

\* C18: in every state of a pass the colour lines, the values clocked in and
\* latched, and the time each LED was lit are those of the pass over the
\* framebuffer with bits 24.. of every pixel cleared, and the address lines,
\* the display enable, the latch count and the holds are fixed by the place
\* in the pass alone; so two framebuffers that agree on bits 0..23 give the
\* same outputs step by step.
C18_HighBitsIgnored ==
  /\ pc = "clk" => rgbPins = MaskedLines(x, plane)
  /\ pc \in {"setRGB", "clk", "strobe"} =>
       \A c \in 1..Len(clocked) : clocked[c] = MaskedLines(c - 1, plane)
  /\ pc \in {"dispOn", "hold", "dispOff"} =>
       /\ Len(latched) = 32
       /\ \A c \in 1..32 : latched[c] = MaskedLines(c - 1, plane)
  /\ pc = "return" =>
       \A k \in 0..1023 : \A c \in 1..3 :
         At(lit, k)[c] = Held(Channel(Low24(At(framebuffer, k)), 8 * (c - 1)))
  /\ pc \in {"setRGB", "clk", "strobe", "dispOn", "hold", "dispOff"} =>
       /\ rowPins = setRow(s)
       /\ dispOn <=> pc \in {"hold", "dispOff"}
       /\ nLatch = 8 * s + plane + (IF pc \in {"dispOn", "hold", "dispOff"} THEN 1 ELSE 0)
       /\ Len(holds) = 8 * s + plane + (IF pc = "dispOff" THEN 1 ELSE 0)

\* C18 witness: at the clock pulse of plane 7 a pixel with bit 24 set and bit
\* 23 clear is on the lines, which are those of the ramp frame, its equal
\* in bits 0..23
C18_Witness ==
  /\ pc = "clk" /\ plane = 7 /\ s = 4
  /\ framebuffer = HighBitsFrame(SourcePanel)
  /\ TestBit(At(framebuffer, 128 + x), 24) = 1 /\ TestBit(At(framebuffer, 128 + x), 23) = 0
  /\ rgbPins[3] = 0
  /\ rgbPins = setRGB(RampFrame(SourcePanel)[4][x], RampFrame(SourcePanel)[20][x], 7)

\* C19: from the fill of the test pattern until line 114, through the passes
\* of line 111, the framebuffer is the test pattern, randomizeFramebuffer
\* has not been called, no heartbeat has been requested, and main has not
\* read the UART flag or cleared it (it is set once a completion interrupt
\* has run and stays set); i counts the passes completed, and the endless
\* loop begins, with frame 0, only after 500 of them.
C19_TestPhase ==
  /\ (pc = "testLoop" \/ (caller = "test" /\ pc \in ScanPcs)) =>
       /\ framebuffer = TestPattern(ClearedFrame(geom), geom)
       /\ nRandomize = 0 /\ nAlive = 0 /\ cadence = NoCadence
       /\ ~sawReady
       /\ UartReady <=> (~txBusy \/ ~rxBusy)
       /\ i <= 500
       /\ pc \in ScanPcs => i < 500
  /\ (pc \in {"loop", "randomPixel", "uartWait", "clearReady", "transmitAlive"}
        \/ caller = "loop") => i = 500
  /\ (pc = "loop" /\ caller = "test") => frame = 0

\* C19 witness: the 500 test passes are over and the endless loop is about
\* to begin, a completion interrupt having set the flag meanwhile
C19_Witness ==
  /\ pc = "loop" /\ caller = "test" /\ i = 500 /\ frame = 0
  /\ framebuffer = TestPattern(ClearedFrame(geom), geom)
  /\ nLatch = scan * NumPlanes /\ UartReady /\ nRandomize = 0 /\ nAlive = 0

====
